---- MODULE Spec2Model ----
(***************************************************************************)
(* Shot Sheet Maker (src/ssm.py): the constructor's selection validation   *)
(* and dependency check, the main window's callbacks, and the export run   *)
(* of create_shot_sheets with get_shots and create_sequence_worksheet.     *)
(* The worksheet is the list of the calls made on it, in program order;    *)
(* edit_xlsx_file is also modelled on its own, member by member (SpecPatch).*)
(*                                                                         *)
(* Strings that the code slices or compares are sequences of one-character *)
(* strings.  The host's PyAttribute values print with surrounding quotes,  *)
(* so a sequence named ab has str(seq.name) = <<"'", "a", "b", "'">>.      *)
(***************************************************************************)
EXTENDS Integers, Sequences, FiniteSets, TLC

VARIABLES
    selection,            \* the selected host objects, in selection order
    pc,                   \* position of the script: handler in progress or idle
    window,               \* self.window: "none", "open", "hidden", "closed"
    trace,                \* what the handler in progress (or last finished) did
    temp_exists,          \* os.path.isdir(self.temp_path)
    settings_export_path, \* self.settings.export_path
    entry_text,           \* self.export_path_entry.text
    config_saved,         \* the export_path held by the config file
    sorted_sequences,     \* create_shot_sheets: indices into selection
    idx,                  \* create_shot_sheets: position in sorted_sequences
    segments,             \* the track of the sequence being processed
    seg_i,                \* get_shots: position in segments
    shot_dict,            \* self.shot_dict, an OrderedDict as a list of items
    marks,                \* in_mark/out_mark of every selected sequence
    workbook,             \* the xlsxwriter.Workbook of the current iteration
    files,                \* the .xlsx files written below the export path
    temp_images,          \* os.listdir(self.temp_image_path) of the iteration in progress
    thumb,                \* export_thumbnail: what its last call exported and changed
    xdir                  \* patch_xlsx_images: the entries of the export directory it handles

vars == <<selection, pc, window, trace, temp_exists, settings_export_path,
          entry_text, config_saved, sorted_sequences, idx, segments, seg_i,
          shot_dict, marks, workbook, files, temp_images, thumb, xdir>>

-----------------------------------------------------------------------------
(* Bounds of the model *)

MaxSel == 2

MaxSegs == 2

MaxAnchors == 2

-----------------------------------------------------------------------------
(* Strings *)

Quote == "'"

Q(s) == <<Quote>> \o s \o <<Quote>>

\* code points of the characters used in names
Ord == ("'" :> 39) @@ ("A" :> 65) @@ ("B" :> 66) @@ ("a" :> 97) @@ ("b" :> 98)

\* position of the first token sep in s, 0 when there is none
RECURSIVE IndexOf(_, _)
IndexOf(s, sep) ==
    IF s = <<>> THEN 0
    ELSE IF Head(s) = sep THEN 1
    ELSE IF IndexOf(Tail(s), sep) = 0 THEN 0
    ELSE 1 + IndexOf(Tail(s), sep)

\* s[1:-1]
Strip(s) == SubSeq(s, 2, Len(s) - 1)

\* Python's str.__lt__: by code point, a proper prefix is smaller
RECURSIVE StrLess(_, _)
StrLess(s, t) ==
    IF t = <<>> THEN FALSE
    ELSE IF s = <<>> THEN TRUE
    ELSE IF Head(s) = Head(t) THEN StrLess(Tail(s), Tail(t))
    ELSE Ord[Head(s)] < Ord[Head(t)]

\* insert name n into the ascending list l, after any equal names
RECURSIVE Insert(_, _)
Insert(n, l) ==
    IF l = <<>> THEN <<n>>
    ELSE IF StrLess(n, Head(l)) THEN <<n>> \o l
    ELSE <<Head(l)>> \o Insert(n, Tail(l))

SortNamesUnsorted(names) == names

\* list.sort() on a list of str
RECURSIVE SortNames(_)
SortNames(names) ==
    IF names = <<>> THEN <<>>
    ELSE Insert(names[Len(names)], SortNames(SubSeq(names, 1, Len(names) - 1)))

-----------------------------------------------------------------------------
(* The host's objects *)

SeqNames == {<<"a">>, <<"a", "b">>, <<"b">>}

\* a selected sequence: str(seq.name), len(versions), len(versions[0].tracks)
SeqObjects == [name : {Q(n) : n \in SeqNames}, versions : {1, 2}, tracks : {1, 2}]

Selections == UNION {[1..k -> SeqObjects] : k \in 1..MaxSel}

VideoSegment == "Video Segment"

\* a segment: type, str(shot_name), str(name), str(source_name), and whether
\* segment.source_duration is 'infinite' (a generated source) or a duration:
\* a shot whose name holds a dot and whose source name holds ': ', a segment
\* without shot name, a gap
SegmentKinds ==
    { [type |-> VideoSegment, shot_name |-> Q(<<"B", ".", "c">>), name |-> Q(<<"a">>),
       source_name |-> Q(<<"s", ": ", "t">>), source_duration |-> "finite"],
      [type |-> VideoSegment, shot_name |-> Q(<<>>),    name |-> Q(<<"A">>),
       source_name |-> Q(<<"u">>), source_duration |-> "infinite"],
      [type |-> "Gap",        shot_name |-> Q(<<>>),    name |-> Q(<<>>),
       source_name |-> Q(<<>>), source_duration |-> "finite"] }

SegLists == UNION {[1..k -> SegmentKinds] : k \in 0..MaxSegs}

\* segment.record_in of the i-th segment of a track: its timeline position
RecordIn(i) == i

\* segment.record_out: every segment of the model is one frame long
RecordOut(i) == RecordIn(i) + 1

\* segment.source_in and segment.source_out: positions in the source clip
SourceIn(i) == 2 * i

SourceOut(i) == SourceIn(i) + 1

Digits == <<"0", "1", "2", "3", "4", "5", "6", "7", "8", "9">>

\* str() of a timecode, quotes included, for a position below ten frames
Timecode(n) == Q(<<"00:00:00+0", Digits[n + 1]>>)

\* str(flame.PyTime(n)) for a number of frames below ten
FrameStr(n) == <<Digits[n + 1]>>

NoMark == <<>>

-----------------------------------------------------------------------------
(* The filesystem below the export path *)

DefaultExportPath == "/opt/Autodesk"

Paths == {DefaultExportPath, "/missing", "/readonly"}

IsDir(p) == p \in {DefaultExportPath, "/readonly"}

Writable(p) == p = DefaultExportPath

XlsxPathShared(export_path, seq_name) == [dir |-> export_path, file |-> <<".xlsx">>]

\* os.path.join(export_path, f'{seq_name}.xlsx')
XlsxPath(export_path, seq_name) == [dir |-> export_path, file |-> seq_name \o <<".xlsx">>]

-----------------------------------------------------------------------------
(* Events of the trace *)

E(ev) == [ev |-> ev, seq |-> <<>>]

Ev(ev, n) == [ev |-> ev, seq |-> n]

Has(tr, e) == \E i \in 1..Len(tr) : tr[i] = e

Count(tr, e) == Cardinality({i \in 1..Len(tr) : tr[i] = e})

\* position of the first e in tr, 0 when there is none
First(tr, e) ==
    IF Has(tr, e) THEN CHOOSE i \in 1..Len(tr) : tr[i] = e /\ \A j \in 1..(i - 1) : tr[j] # e
    ELSE 0

\* position of the last e in tr, 0 when there is none
Last(tr, e) ==
    IF Has(tr, e) THEN CHOOSE i \in 1..Len(tr) : tr[i] = e /\ \A j \in (i + 1)..Len(tr) : tr[j] # e
    ELSE 0

-----------------------------------------------------------------------------
(* __init__ *)

SequenceNames(sel) == [i \in 1..Len(sel) |-> Strip(sel[i].name)]

NameCount(names, n) == Cardinality({i \in 1..Len(names) : names[i] = n})

\* the loop of lines 67-81 returns at the first item that fails either test
VersionTrackError(sel) == \E i \in 1..Len(sel) : sel[i].versions > 1 \/ sel[i].tracks > 1

DuplicateNames(sel) ==
    LET names == SequenceNames(sel)
    IN  SelectSeq(names, LAMBDA n : NameCount(names, n) > 1)

InstallDirs == {"missing", "empty", "nonempty"}

\* install_xlsxwriter: what it does for the password typed and the state of
\* <python packages>/xlsxwriter after the untar
InstallXlsxwriter(password, install_dir) ==
    IF password # ""
    THEN <<Ev("password", <<"given">>), E("untar"), Ev("install_dir", <<install_dir>>)>> \o
         (IF install_dir = "nonempty"
          THEN <<E("msg_installed"), E("rescan_hooks"), E("main_window")>>
          ELSE IF install_dir = "empty" THEN <<>>
          ELSE <<E("msg_install_failed")>>)
    ELSE <<Ev("password", <<"empty">>)>>

SetUpNoDependencyCheck(temp, importable, password, install_dir) ==
    (IF temp THEN <<E("rmtree_temp")>> ELSE <<>>) \o
    <<E("mkdir_temp"), E("main_window")>>

\* the temp directory, the exporter and the dependency check, lines 94-135
SetUp(temp, importable, password, install_dir) ==
    (IF temp THEN <<E("rmtree_temp")>> ELSE <<>>) \o <<E("mkdir_temp")>> \o
    (IF importable THEN <<E("import_ok"), E("main_window")>>
     ELSE <<E("import_fail")>> \o InstallXlsxwriter(password, install_dir))

ConstructorTraceNoVersionCheck(sel, temp, install_ok, importable, password, install_dir) ==
    IF ~install_ok THEN <<E("verify_failed")>>
    ELSE <<E("verify_ok")>> \o
         (IF DuplicateNames(sel) # <<>> THEN <<E("err_duplicate")>>
          ELSE SetUp(temp, importable, password, install_dir))

ConstructorTraceNoDuplicateCheck(sel, temp, install_ok, importable, password, install_dir) ==
    IF ~install_ok THEN <<E("verify_failed")>>
    ELSE <<E("verify_ok")>> \o
         (IF VersionTrackError(sel) THEN <<E("err_versions")>>
          ELSE SetUp(temp, importable, password, install_dir))

\* what __init__ does, in order
ConstructorTrace(sel, temp, install_ok, importable, password, install_dir) ==
    IF ~install_ok THEN <<E("verify_failed")>>
    ELSE <<E("verify_ok")>> \o
         (IF VersionTrackError(sel) THEN <<E("err_versions")>>
          ELSE IF DuplicateNames(sel) # <<>> THEN <<E("err_duplicate")>>
          ELSE SetUp(temp, importable, password, install_dir))

\* the module-level "from xlsxwriter.utility import ..." of line 37: when
\* xlsxwriter cannot be imported the script does not load, and no
\* ShotSheetMaker is ever constructed
ModuleLoads(importable) == importable

\* the menu entry is used: the script loads and __init__ runs
Construct ==
    /\ pc = "start"
    /\ \E install_ok \in BOOLEAN, importable \in BOOLEAN,
          password \in {"", "pw"}, install_dir \in InstallDirs :
          LET tr == IF ModuleLoads(importable)
                    THEN ConstructorTrace(selection, temp_exists, install_ok, importable,
                                          password, install_dir)
                    ELSE <<E("module_load_error")>>
          IN  /\ trace' = tr
              /\ temp_exists' = IF Has(tr, E("mkdir_temp")) THEN TRUE ELSE temp_exists
              /\ window' = IF Has(tr, E("main_window")) THEN "open" ELSE "none"
              /\ pc' = IF Has(tr, E("main_window")) THEN "window" ELSE "ended"
    /\ UNCHANGED <<selection, settings_export_path, entry_text, config_saved,
                   sorted_sequences, idx, segments, seg_i, shot_dict, marks,
                   workbook, files,
                   temp_images, thumb, xdir>>

-----------------------------------------------------------------------------
(* main_window *)

ExportPathBrowse ==
    /\ pc = "window"
    /\ \E export_path \in Paths \cup {""} :
          entry_text' = IF export_path # "" THEN export_path ELSE entry_text
    /\ trace' = <<>>
    /\ UNCHANGED <<selection, pc, window, temp_exists, settings_export_path,
                   config_saved, sorted_sequences, idx, segments, seg_i,
                   shot_dict, marks, workbook, files,
                   temp_images, thumb, xdir>>

\* save_config up to self.window.hide(); create_shot_sheets follows
SaveConfig ==
    /\ pc = "window"
    /\ settings_export_path' = entry_text
    /\ IF ~IsDir(entry_text)
       THEN /\ trace' = <<E("err_path_missing")>>
            /\ UNCHANGED <<pc, window, config_saved>>
       ELSE IF ~Writable(entry_text)
       THEN /\ trace' = <<E("err_path_readonly")>>
            /\ UNCHANGED <<pc, window, config_saved>>
       ELSE /\ config_saved' = entry_text
            /\ window' = "hidden"
            /\ trace' = <<E("save_config"), E("hide")>>
            /\ pc' = "sort"
    /\ UNCHANGED <<selection, temp_exists, entry_text, sorted_sequences, idx,
                   segments, seg_i, shot_dict, marks, workbook, files,
                   temp_images, thumb, xdir>>

\* close_window, and the Cancel button
CloseWindow ==
    /\ pc = "window"
    /\ window' = "closed"
    /\ trace' = <<E("window_close")>>
    /\ pc' = "ended"
    /\ UNCHANGED <<selection, temp_exists, settings_export_path, entry_text,
                   config_saved, sorted_sequences, idx, segments, seg_i,
                   shot_dict, marks, workbook, files,
                   temp_images, thumb, xdir>>

-----------------------------------------------------------------------------
(* create_shot_sheets *)

CurIndex == sorted_sequences[idx]

\* seq_name = str(sequence.name)[1:-1]
CurName == Strip(selection[CurIndex].name)

\* the items of the selection whose name is n, in selection order
Matching(sel, n) ==
    SelectSeq([i \in 1..Len(sel) |-> i], LAMBDA i : Strip(sel[i].name) = n)

\* the nested loops that build sorted_sequences from the sorted names
RECURSIVE BuildSorted(_, _)
BuildSorted(sel, names) ==
    IF names = <<>> THEN <<>>
    ELSE Matching(sel, Head(names)) \o BuildSorted(sel, Tail(names))

SortedSequences(sel) == BuildSorted(sel, SortNames(SequenceNames(sel)))

AfterSequenceSkipCleanup(i, n) == IF i + 1 > n THEN "complete" ELSE "begin"

\* where the for loop over sorted_sequences goes after the item at position i of n
AfterSequence(i, n) == IF i + 1 > n THEN "cleanup" ELSE "begin"

OnExceptionSilent(name) == <<Ev("raise", name)>>

\* the except clause of the loop body: one error dialog, then continue
OnException(name) == <<Ev("raise", name), Ev("err_export", name)>>

\* the sort of the selection, lines 302-429
SortSequences ==
    /\ pc = "sort"
    /\ \E host_error \in BOOLEAN :
          IF host_error
          THEN /\ trace' = trace \o <<E("raise"), E("err_sort"), E("window_close")>>
               /\ window' = "closed"
               /\ pc' = "ended"
               /\ UNCHANGED sorted_sequences
          ELSE /\ sorted_sequences' = SortedSequences(selection)
               /\ trace' = Append(trace, E("sorted"))
               /\ pc' = AfterSequence(0, Len(SortedSequences(selection)))
               /\ UNCHANGED window
    /\ idx' = 1
    /\ UNCHANGED <<selection, temp_exists, settings_export_path, entry_text,
                   config_saved, segments, seg_i, shot_dict, marks, workbook, files,
                   temp_images, thumb, xdir>>

\* no call of export_thumbnail yet in this get_shots
NoThumb == [shot |-> <<>>, exported |-> {}, new_images |-> <<>>, removed |-> {},
            renamed |-> <<>>]

\* no workbook object: before the first iteration, and once an iteration is over;
\* the next iteration has a thumbnail directory of its own
NoWorkbook == [path |-> [dir |-> "", file |-> <<>>], sheets |-> <<>>]

\* the loop body was left by an exception, after the events it had logged
FailedAfter(events) ==
    /\ trace' = trace \o events \o OnException(CurName)
    /\ pc' = AfterSequence(idx, Len(sorted_sequences))
    /\ idx' = idx + 1
    /\ segments' = <<>>
    /\ seg_i' = 1
    /\ workbook' = NoWorkbook
    /\ temp_images' = {}
    /\ thumb' = NoThumb

Failed == FailedAfter(<<>>)

\* the loop body ended normally
Succeeded(events) ==
    /\ trace' = trace \o events
    /\ pc' = AfterSequence(idx, Len(sorted_sequences))
    /\ idx' = idx + 1
    /\ segments' = <<>>
    /\ seg_i' = 1
    /\ workbook' = NoWorkbook
    /\ temp_images' = {}
    /\ thumb' = NoThumb

\* the head of the loop body and of get_shots: the workbook object, the
\* thumbnail directory of the sequence, thumbnail_res, an empty shot_dict.
\* Workbook(), rmtree and makedirs can raise before the directory is made,
\* thumbnail_res (a division by sequence.height) after it; self.shot_dict is
\* then still the one of the previous sequence
BeginSequence ==
    /\ pc = "begin"
    /\ \E outcome \in {"ok", "raise_early", "raise_thumbnail_res"} :
          IF outcome = "ok"
          THEN /\ workbook' = [path |-> XlsxPath(entry_text, CurName), sheets |-> <<>>]
               /\ \E segs \in SegLists : segments' = segs
               /\ seg_i' = 1
               /\ shot_dict' = <<>>
               /\ temp_images' = {}
               /\ thumb' = NoThumb
               /\ trace' = trace \o <<Ev("workbook", CurName), Ev("mkdir_images", CurName)>>
               /\ pc' = "shots"
               /\ UNCHANGED idx
          ELSE /\ FailedAfter(IF outcome = "raise_early"
                              THEN <<Ev("workbook", CurName)>>
                              ELSE <<Ev("workbook", CurName), Ev("mkdir_images", CurName)>>)
               /\ UNCHANGED shot_dict
    /\ UNCHANGED <<selection, window, temp_exists, settings_export_path, entry_text,
                   config_saved, sorted_sequences, marks, files,
                   xdir>>

-----------------------------------------------------------------------------
(* get_shots *)

\* shot_name, with segment.name when the shot name is empty
ShotName(segment) ==
    IF Strip(segment.shot_name) = <<>> THEN Strip(segment.name) ELSE Strip(segment.shot_name)

HasKey(d, k) == \E i \in 1..Len(d) : d[i].key = k

\* OrderedDict.update({k: v}): a key already present keeps its position
DictUpdate(d, k, v) ==
    IF HasKey(d, k)
    THEN [i \in 1..Len(d) |-> IF d[i].key = k THEN [key |-> k, val |-> v] ELSE d[i]]
    ELSE Append(d, [key |-> k, val |-> v])

\* f'{label}: {value}'
Line(label, value) == <<label, ": ">> \o value

\* self.clip_info_list of the segment at position i: a string is the sequence
\* of its tokens, and the separators the worksheet splits at are tokens
ClipInfo(segment, i) ==
    << Line("Shot Name", ShotName(segment)),
       Line("Source Name", segment.source_name),
       Line("Source Path", <<"/clip">>),
       Line("Source TC", Strip(Timecode(SourceIn(i))) \o <<" - ">> \o
                         Strip(Timecode(SourceOut(i)))),
       Line("Source TC In", Strip(Timecode(SourceIn(i)))),
       Line("Source TC Out", Strip(Timecode(SourceOut(i)))),
       Line("Record TC", Strip(Timecode(RecordIn(i))) \o <<" - ">> \o
                         Strip(Timecode(RecordOut(i)))),
       Line("Record TC In", Strip(Timecode(RecordIn(i)))),
       Line("Record TC Out", Strip(Timecode(RecordOut(i)))),
       Line("Shot Frame In", FrameStr(RecordIn(i))),
       Line("Shot Frame Out", FrameStr(RecordOut(i))),
       Line("Shot Length", Strip(Timecode(RecordOut(i) - RecordIn(i))) \o <<" - ">> \o
                           FrameStr(RecordOut(i) - RecordIn(i)) \o <<" ", "Frames">>),
       IF segment.source_duration # "infinite"
       THEN Line("Source Length", Strip(Timecode(SourceOut(i) - SourceIn(i))) \o <<" - ">> \o
                                  FrameStr(SourceOut(i) - SourceIn(i)) \o <<" ", "Frames">>)
       ELSE Line("Source Length", <<"Infinite">>),
       Line("Comment", <<>>) >>

\* a thumbnail file name is the sequence of its tokens, every dot a token:
\* shot_name, ".", "jpg", with "." and a frame number before the extension
\* when the exporter numbers the frames

\* what self.exporter.export writes for in_mark..out_mark: one frame, or two
\* when Inclusive Out Marks is set in the host's preferences
Exported(shot_name, frames) ==
    IF frames = 1 THEN {shot_name \o <<".", "jpg">>}
    ELSE {shot_name \o <<".", "1", ".", "jpg">>, shot_name \o <<".", "2", ".", "jpg">>}

\* the orders in which os.listdir can return the files of S
Listings(S) ==
    {l \in [1..Cardinality(S) -> S] : \A i, j \in 1..Cardinality(S) : l[i] = l[j] => i = j}

\* new_image.split('.')[0] + '.jpg': the text before the first dot
WithoutFrameNumber(new_image) ==
    (IF IndexOf(new_image, ".") = 0 THEN new_image
     ELSE SubSeq(new_image, 1, IndexOf(new_image, ".") - 1)) \o <<".", "jpg">>

\* new_image.count('.')
DotCount(new_image) == Cardinality({i \in 1..Len(new_image) : new_image[i] = "."})

\* the file the fix for extra frames deletes: new_images[0]
RemovedByFix(before, updated, new_images) ==
    IF Cardinality(updated) - Cardinality(before) = 2 THEN {new_images[1]} ELSE {}

\* the rename of the fix for extra frames: new_images[1], if its name has two dots
RenamedByFix(before, updated, new_images) ==
    IF Cardinality(updated) - Cardinality(before) = 2 /\ DotCount(new_images[2]) > 1
    THEN <<[from |-> new_images[2], to |-> WithoutFrameNumber(new_images[2])]>>
    ELSE <<>>

\* the directory after export_thumbnail's fix
AfterFix(updated, removed, renamed) ==
    IF renamed = <<>> THEN updated \ removed
    ELSE ((updated \ removed) \ {renamed[1].from}) \cup {renamed[1].to}

\* one iteration of the loop over the track's segments.  export_thumbnail can
\* raise while it edits the preset (before the marks are set), in
\* self.exporter.export (the marks are set), and in the fix for extra frames
\* or the scrape of the clip info (the marks are cleared again)
ShotStep ==
    /\ pc = "shots"
    /\ seg_i <= Len(segments)
    /\ LET segment == segments[seg_i]
       IN  IF segment.type # VideoSegment
           THEN /\ seg_i' = seg_i + 1
                /\ UNCHANGED <<pc, trace, idx, segments, shot_dict, marks, workbook,
                               temp_images, thumb>>
           ELSE \E outcome \in {"ok", "raise_preset", "raise_export", "raise_fix"} :
                  IF outcome = "ok"
                  THEN /\ marks' = [marks EXCEPT ![CurIndex] = NoMark]
                       /\ \E frames \in {1, 2} :
                            LET exported == Exported(ShotName(segment), frames)
                                updated  == temp_images \cup exported
                            IN  \E new_images \in Listings(updated \ temp_images) :
                                  LET removed == RemovedByFix(temp_images, updated, new_images)
                                      renamed == RenamedByFix(temp_images, updated, new_images)
                                  IN  /\ temp_images' = AfterFix(updated, removed, renamed)
                                      /\ thumb' = [shot |-> ShotName(segment),
                                                   exported |-> exported,
                                                   new_images |-> new_images,
                                                   removed |-> removed,
                                                   renamed |-> renamed]
                       /\ shot_dict' = DictUpdate(shot_dict, ShotName(segment),
                                                   ClipInfo(segment, seg_i))
                       /\ seg_i' = seg_i + 1
                       /\ UNCHANGED <<pc, trace, idx, segments, workbook>>
                  ELSE /\ marks' = IF outcome = "raise_preset" THEN marks
                                  ELSE IF outcome = "raise_export"
                                  THEN [marks EXCEPT ![CurIndex] =
                                          <<RecordIn(seg_i), RecordIn(seg_i) + 1>>]
                                  ELSE [marks EXCEPT ![CurIndex] = NoMark]
                       /\ Failed
                       /\ UNCHANGED shot_dict
    /\ UNCHANGED <<selection, window, temp_exists, settings_export_path, entry_text,
                   config_saved, sorted_sequences, files,
                   xdir>>

\* get_shots returns after the last segment
GetShotsReturn ==
    /\ pc = "shots"
    /\ seg_i > Len(segments)
    /\ trace' = Append(trace, Ev("get_shots_done", CurName))
    /\ thumb' = NoThumb
    /\ pc' = "worksheet"
    /\ UNCHANGED <<selection, window, temp_exists, settings_export_path, entry_text,
                   config_saved, sorted_sequences, idx, segments, seg_i, shot_dict,
                   marks, workbook, files,
                   temp_images, xdir>>

-----------------------------------------------------------------------------
(* create_sequence_worksheet *)

\* s.split(sep, 1)
SplitOnce(s, sep) ==
    IF IndexOf(s, sep) = 0 THEN <<s>>
    ELSE <<SubSeq(s, 1, IndexOf(s, sep) - 1), SubSeq(s, IndexOf(s, sep) + 1, Len(s))>>

\* s.split(sep)
RECURSIVE Split(_, _)
Split(s, sep) ==
    IF IndexOf(s, sep) = 0 THEN <<s>>
    ELSE <<SubSeq(s, 1, IndexOf(s, sep) - 1)>> \o
         Split(SubSeq(s, IndexOf(s, sep) + 1, Len(s)), sep)

\* source_name, from index 1 of the clip info
SourceNameOf(info) ==
    IF IndexOf(info[2], ": ") # 0 THEN SplitOnce(info[2], ": ")[2] ELSE info[2]

\* source_tc, from indices 4 and 5: f"{tc_in}\n{tc_out}"
SourceTcOf(info) ==
    SplitOnce(info[5], ": ")[2] \o <<"\n">> \o SplitOnce(info[6], ": ")[2]

\* seq_tc, from indices 7 and 8
SeqTcOf(info) ==
    SplitOnce(info[8], ": ")[2] \o <<"\n">> \o SplitOnce(info[9], ": ")[2]

\* frame_count, from index 11: length_info.split(' - ')[1].split(' ')[0]
FrameCountOf(info) == Split(Split(info[12], " - ")[2], " ")[1]

\* the value of a cell: the tokens of its text, <<>> for the empty string
Text(str) == IF str = "" THEN <<>> ELSE <<str>>

\* a call on the worksheet: the method, the range it names, and its data
Op(op, r1, c1, r2, c2, val) ==
    [op |-> op, r1 |-> r1, c1 |-> c1, r2 |-> r2, c2 |-> c2, val |-> val]

Write(row, col, val) == Op("write", row, col, row, col, val)

MergeRange(r1, c1, r2, c2, val) == Op("merge_range", r1, c1, r2, c2, val)

SetRow(row, height) == Op("set_row", row, 0, row, 0, <<height>>)

SetColumn(c1, c2, width) == Op("set_column", -1, c1, -1, c2, <<width>>)

\* worksheet.insert_image(row, col, path, options); found is whether the file
\* of the path exists when the call is made
InsertImage(row, col, path, found) ==
    [op |-> "insert_image", r1 |-> row, c1 |-> col, r2 |-> row, c2 |-> col,
     val |-> path, found |-> found]

DataValidation(r1, c1, r2, c2, source) == Op("data_validation", r1, c1, r2, c2, source)

ConditionalFormat(r1, c1, r2, c2, value) ==
    Op("conditional_format", r1, c1, r2, c2, <<value>>)

departments == <<"Tracking", "Roto", "Paint", "DMP", "Comp", "CG">>

metadata_labels == <<"Source Name", "Source TC I/O", "Seq TC I/O", "Length frames", "">>

\* list(status_formats.keys())
status_options == <<"Not Started", "In Progress", "Review", "Internally Approved",
                    "Client Approved", "On Hold">>

\* the calls between add_worksheet and the loop over shot_dict
HeaderOps ==
    << SetColumn(0, 0, "column_width * 1.3"), SetColumn(1, 1, "20"),
       SetColumn(2, 7, "25"),
       Write(0, 0, <<"Thumbnail">>), Write(0, 1, <<"Shot Info">>),
       Write(0, 2, <<"Departments and Tasks">>),
       MergeRange(0, 2, 0, 7, <<"Departments and Tasks">>) >>

\* the two merge_range calls of the thumbnail column and the insert_image
\* call, which is made whether or not the thumbnail file exists
ThumbnailOps(b) ==
    << MergeRange(b.row, 0, b.row + 4, 0, <<>>),
       MergeRange(b.row, 0, b.row + 4, 0, <<>>),
       InsertImage(b.row, 0, b.shot \o <<".", "jpg">>, b.image) >>

\* the writes of the four metadata values in row current_row + 1
MetadataValueOps(b) ==
    << Write(b.row + 1, 3, SourceNameOf(b.info)),
       Write(b.row + 1, 4, SourceTcOf(b.info)),
       Write(b.row + 1, 5, SeqTcOf(b.info)),
       Write(b.row + 1, 6, FrameCountOf(b.info)) >>

\* the empty cell of column 7, then the loop "for col in range(3, 7)" that
\* writes '' with shot_name_format over the values
BlankValueOps(b) ==
    << Write(b.row + 1, 7, <<>>) >> \o [col \in 1..4 |-> Write(b.row + 1, col + 2, <<>>)]

\* "Force write the metadata values after all other operations"
ForceWriteOps(b) == MetadataValueOps(b)

StatusColumnOpsNoValidation(b, col) ==
    << Write(b.row + 3, col, <<"Not Started">>),
       Write(b.row + 4, col, <<>>) >>

\* the calls of one column's iteration of the loop "for col in range(2, 8)"
StatusColumnOps(b, col) ==
    << DataValidation(b.row + 3, col, b.row + 3, col, status_options),
       Write(b.row + 3, col, <<"Not Started">>),
       Write(b.row + 4, col, <<>>) >>

RECURSIVE Concat(_)
Concat(ss) == IF ss = <<>> THEN <<>> ELSE Head(ss) \o Concat(Tail(ss))

\* one conditional_format call per status other than 'Not Started'
StatusFormatOps(b) ==
    [k \in 1..(Len(status_options) - 1) |->
        ConditionalFormat(b.row + 3, 2, b.row + 3, 7, status_options[k + 1])]

\* the calls of one iteration of the loop over shot_dict, in program order
BlockOps(b) ==
    [i \in 1..5 |-> SetRow(b.row + i - 1, "row_height / 5")] \o
    ThumbnailOps(b) \o
    << SetRow(b.row, "row_height / 2"),
       MergeRange(b.row, 1, b.row + 1, 2, b.shot) >> \o
    [i \in 1..5 |-> Write(b.row, i + 2, <<Digits[i + 1]>>)] \o
    << SetRow(b.row, "30") >> \o
    [i \in 1..5 |-> Write(b.row, i + 2, Text(metadata_labels[i]))] \o
    << SetRow(b.row + 1, "row_height * 0.35"),
       SetColumn(3, 3, "20") >> \o
    MetadataValueOps(b) \o BlankValueOps(b) \o
    << Write(b.row + 2, 1, <<"Task:">>),
       Write(b.row + 3, 1, <<"Status:">>),
       Write(b.row + 4, 1, <<"Artist:">>) >> \o
    [i \in 1..6 |-> Write(b.row + 2, i + 1, <<departments[i]>>)] \o
    Concat([i \in 1..6 |-> StatusColumnOps(b, i + 1)]) \o
    StatusFormatOps(b) \o
    ForceWriteOps(b) \o
    << SetRow(b.row + 5, "15") >> \o
    [col \in 1..8 |-> Write(b.row + 5, col - 1, <<>>)]

\* the call after the loop
TitleOps(seq_name) == << MergeRange(0, 0, 0, 7, seq_name) >>

\* every call made on the worksheet, in program order
WorksheetOps(sheet) ==
    HeaderOps \o Concat([k \in 1..Len(sheet.blocks) |-> BlockOps(sheet.blocks[k])]) \o
    TitleOps(sheet.name)

\* the loop over shot_dict: one row block per key, current_row += 6; a block
\* keeps its key, its first row, the clip info it reads, and whether
\* image_path exists
RECURSIVE WriteBlocks(_, _, _)
WriteBlocks(d, current_row, images) ==
    IF d = <<>> THEN <<>>
    ELSE <<[shot |-> Head(d).key, row |-> current_row, info |-> Head(d).val,
            image |-> (Head(d).key \o <<".", "jpg">>) \in images]>> \o
         WriteBlocks(Tail(d), current_row + 6, images)

CreateSequenceWorksheet ==
    /\ pc = "worksheet"
    /\ \E ok \in BOOLEAN :
          IF ok
          THEN /\ workbook' = [workbook EXCEPT !.sheets =
                                 Append(@, [name |-> CurName, blocks |-> WriteBlocks(shot_dict, 1, temp_images)])]
               /\ trace' = Append(trace, Ev("worksheet", CurName))
               /\ pc' = "close"
               /\ UNCHANGED <<idx, segments, seg_i, temp_images, thumb>>
          ELSE Failed
    /\ UNCHANGED <<selection, window, temp_exists, settings_export_path, entry_text,
                   config_saved, sorted_sequences, shot_dict, marks, files,
                   xdir>>

\* the names of the worksheets of a workbook, which is what a file keeps of it
SheetNames(wb) == [i \in 1..Len(wb.sheets) |-> wb.sheets[i].name]

\* workbook.close() writes the file
CloseWorkbook ==
    /\ pc = "close"
    /\ \E ok \in BOOLEAN :
          IF ok
          THEN /\ files' = (workbook.path :> [sheets |-> SheetNames(workbook), patched |-> FALSE])
                           @@ files
               /\ trace' = Append(trace, Ev("close", CurName))
               /\ pc' = "patch"
               /\ UNCHANGED <<idx, segments, seg_i, workbook, temp_images, thumb>>
          ELSE Failed /\ UNCHANGED files
    /\ UNCHANGED <<selection, window, temp_exists, settings_export_path, entry_text,
                   config_saved, sorted_sequences, shot_dict, marks,
                   xdir>>

\* os.remove(path) on the files written so far
Removed(fs, path) ==
    IF DOMAIN fs \subseteq {path} THEN <<>>
    ELSE [q \in DOMAIN fs \ {path} |-> fs[q]]

\* edit_xlsx_file(xlsx_path): the archive is rewritten at the same path.  A
\* call that raises before os.remove leaves the workbook as it was closed, one
\* that raises in os.rename leaves no workbook, and one that raises in the
\* last rmtree leaves the rewritten workbook
EditXlsxFile ==
    /\ pc = "patch"
    /\ \E outcome \in {"ok", "raise_before_remove", "raise_rename", "raise_rmtree"} :
          /\ files' = IF outcome = "raise_before_remove" THEN files
                      ELSE IF outcome = "raise_rename"
                      THEN Removed(files, XlsxPath(entry_text, CurName))
                      ELSE [files EXCEPT ![XlsxPath(entry_text, CurName)].patched = TRUE]
          /\ IF outcome = "ok" THEN Succeeded(<<Ev("patch", CurName)>>) ELSE Failed
    /\ UNCHANGED <<selection, window, temp_exists, settings_export_path, entry_text,
                   config_saved, sorted_sequences, shot_dict, marks,
                   xdir>>

-----------------------------------------------------------------------------
(* edit_xlsx_file, step by step, on the entries of the export directory *)

\* An archive, and an extracted tree, is a function from member names to
\* contents.  A member name is its directory and the tokens of its file name;
\* the content of an XML member is the list of the children of its root, each
\* with its tag and its editAs attribute ("" when it has none).

DrawingsDir == <<"xl", "drawings">>

Anchors == [tag : {"twoCellAnchor", "oneCellAnchor", "absoluteAnchor"},
            editAs : {"", "oneCell", "twoCell"}]

AnchorLists == UNION {[1..k -> Anchors] : k \in 0..MaxAnchors}

\* the members xlsxwriter writes besides the first drawing, and members whose
\* names are close to a drawing's
OtherMembers ==
    ([dir |-> <<>>, file |-> <<"[Content_Types]", ".xml">>] :>
        <<[tag |-> "Override", editAs |-> ""]>>) @@
    ([dir |-> <<"xl", "worksheets">>, file |-> <<"sheet", "1", ".xml">>] :>
        <<[tag |-> "sheetData", editAs |-> ""]>>) @@
    ([dir |-> <<"xl", "drawings", "_rels">>, file |-> <<"drawing", "1", ".xml", ".rels">>] :>
        <<[tag |-> "Relationship", editAs |-> ""]>>) @@
    ([dir |-> DrawingsDir, file |-> <<"vmlDrawing", "1", ".vml">>] :>
        <<[tag |-> "twoCellAnchor", editAs |-> "oneCell"]>>) @@
    ([dir |-> <<"xl", "media">>, file |-> <<"drawing", "9", ".xml">>] :>
        <<[tag |-> "oneCellAnchor", editAs |-> ""]>>) @@
    ([dir |-> DrawingsDir, file |-> <<"drawing", "2", ".xml">>] :>
        <<[tag |-> "oneCellAnchor", editAs |-> ""], [tag |-> "twoCellAnchor", editAs |-> "absolute"]>>)

Drawing1 == [dir |-> DrawingsDir, file |-> <<"drawing", "1", ".xml">>]

\* the workbooks edit_xlsx_file is given: with a first drawing, or with none
Archives == {(Drawing1 :> d) @@ OtherMembers : d \in AnchorLists} \cup
            {[m \in {n \in DOMAIN OtherMembers : n.dir # DrawingsDir} |-> OtherMembers[m]]}

\* what a run that was interrupted has left in temp_xlsx or in '<path>.zip'
Stale == OtherMembers

\* unzip_xlsx: extractall
UnzipXlsx(archive) == archive

\* zip_dir: every file below source_dir, under its relative path
ZipDir(tree) == tree

ModifyDrawingXmlTwoCellOnly(children) ==
    [i \in 1..Len(children) |->
        IF children[i].tag = "twoCellAnchor"
        THEN [children[i] EXCEPT !.editAs = "twoCell"] ELSE children[i]]

\* modify_drawing_xml: anchor.set('editAs', 'twoCell') on the root's
\* twoCellAnchor and oneCellAnchor children
ModifyDrawingXml(children) ==
    [i \in 1..Len(children) |->
        IF children[i].tag \in {"twoCellAnchor", "oneCellAnchor"}
        THEN [children[i] EXCEPT !.editAs = "twoCell"] ELSE children[i]]

\* a file of xl/drawings with file.startswith('drawing') and file.endswith('.xml')
IsDrawingXml(m) ==
    /\ m.dir = DrawingsDir
    /\ m.file[1] = "drawing"
    /\ m.file[Len(m.file)] = ".xml"

\* the files of xl/drawings that step 2 of patch_xlsx_images modifies
DrawingXmls(tree) == {m \in DOMAIN tree : IsDrawingXml(m)}

\* step 2 of patch_xlsx_images on the extracted tree, when it has reached the
\* files of S
ModifySome(tree, S) ==
    [m \in DOMAIN tree |-> IF m \in S THEN ModifyDrawingXml(tree[m]) ELSE tree[m]]

\* step 2 of patch_xlsx_images on the extracted tree
ModifyDrawings(tree) == ModifySome(tree, DrawingXmls(tree))

\* an entry of the export directory: <<>> when absent, <<content>> when present
Present(content) == <<content>>

\* the members m of f, as a function; an archive or a tree without members
\* is <<>>
Members(f, T) == IF T = {} THEN <<>> ELSE [m \in T |-> f[m]]

\* m is below directory D
Below(m, D) == Len(D) <= Len(m.dir) /\ SubSeq(m.dir, 1, Len(D)) = D

\* the directories of a tree, and the subdirectories of D
Dirs(tree) == UNION {{SubSeq(m.dir, 1, k) : k \in 0..Len(m.dir)} : m \in DOMAIN tree}

Subdirs(tree, D) ==
    {sub \in Dirs(tree) : Len(sub) = Len(D) + 1 /\ SubSeq(sub, 1, Len(D)) = D}

\* a traversal that has handled the files T is inside directory D
Inside(tree, T, D) ==
    /\ \E m \in T : Below(m, D)
    /\ \E m \in DOMAIN tree \ T : Below(m, D)

\* shutil.rmtree has unlinked the files T when it stops: it takes the entries
\* of a directory in the order of os.scandir and empties a subdirectory
\* before it goes on, so it is inside one subdirectory of a directory at most
RmtreeReached(tree, T) ==
    /\ T \subseteq DOMAIN tree
    /\ \A D \in Dirs(tree) :
          Cardinality({sub \in Subdirs(tree, D) : Inside(tree, T, sub)}) <= 1

\* os.walk of zip_dir has yielded the files T when it stops: top down, the
\* files of a directory before those of its subdirectories, and one
\* subdirectory after the other
WalkReached(tree, T) ==
    /\ RmtreeReached(tree, T)
    /\ \A D \in Dirs(tree) :
          (\E m \in T : Below(m, D) /\ m.dir # D) =>
              \A m \in DOMAIN tree : m.dir = D => m \in T

\* patch_xlsx_images(xlsx_path, xlsx_path) when no call raises: temp_xlsx is
\* emptied and filled from the archive, its drawings are modified, it is zipped
\* to '<path>.zip', which replaces the workbook, and temp_xlsx is removed
Patched(d) ==
    LET extracted == [d EXCEPT !.temp_xlsx = Present(UnzipXlsx(d.xlsx[1]))]
        modified  == [extracted EXCEPT !.temp_xlsx = Present(ModifyDrawings(extracted.temp_xlsx[1]))]
        zipped    == [modified EXCEPT !.zip = Present(ZipDir(modified.temp_xlsx[1]))]
        renamed   == [zipped EXCEPT !.xlsx = zipped.zip, !.zip = <<>>]
    IN  [renamed EXCEPT !.temp_xlsx = <<>>]

\* patch_xlsx_images when unzip_xlsx raises: temp_xlsx was made, and holds the
\* members T that extractall has written, the first ones in the order of the
\* archive (none when ZipFile() raises)
UnzipFailed(d, T) == [d EXCEPT !.temp_xlsx = Present(Members(d.xlsx[1], T))]

\* the calls of patch_xlsx_images that can raise, in their order
RaisePoints == <<"rmtree", "makedirs", "unzip_xlsx", "modify_drawing_xml", "zip_open",
                 "zip_dir", "remove", "rename", "rmtree_end">>

\* patch_xlsx_images when the call raise_at raises: what the calls before it
\* have done stays.  T is the set of files the interrupted call has handled
\* (unlinked by rmtree, written by extractall or by zip_dir), S the drawings
\* modify_drawing_xml has rewritten
Interrupted(d, raise_at, T, S) ==
    LET extracted == [d EXCEPT !.temp_xlsx = Present(UnzipXlsx(d.xlsx[1]))]
        modified  == [extracted EXCEPT !.temp_xlsx = Present(ModifyDrawings(extracted.temp_xlsx[1]))]
        zipped    == [modified EXCEPT !.zip = Present(ZipDir(modified.temp_xlsx[1]))]
        removed   == [zipped EXCEPT !.xlsx = <<>>]
        renamed   == [removed EXCEPT !.xlsx = zipped.zip, !.zip = <<>>]
    IN  CASE raise_at = "rmtree"             ->
                [d EXCEPT !.temp_xlsx =
                    Present(Members(d.temp_xlsx[1], DOMAIN d.temp_xlsx[1] \ T))]
          [] raise_at = "makedirs"           -> [d EXCEPT !.temp_xlsx = <<>>]
          [] raise_at = "unzip_xlsx"         -> UnzipFailed(d, T)
          [] raise_at = "modify_drawing_xml" ->
                [extracted EXCEPT !.temp_xlsx = Present(ModifySome(extracted.temp_xlsx[1], S))]
          [] raise_at = "zip_open"           -> modified
          [] raise_at = "zip_dir"            ->
                [modified EXCEPT !.zip = Present(Members(modified.temp_xlsx[1], T))]
          [] raise_at = "remove"             -> zipped
          [] raise_at = "rename"             -> removed
          [] raise_at = "rmtree_end"         ->
                [renamed EXCEPT !.temp_xlsx =
                    Present(Members(modified.temp_xlsx[1], DOMAIN d.xlsx[1] \ T))]

\* the sets of files at which the call raise_at can stop: rmtree runs when
\* temp_xlsx exists and follows os.scandir, extractall follows the order of
\* the archive, which can be any, zip_dir follows os.walk
Handled(d, raise_at) ==
    CASE raise_at = "rmtree"     ->
            IF d.temp_xlsx = <<>> THEN {}
            ELSE {T \in SUBSET DOMAIN d.temp_xlsx[1] : RmtreeReached(d.temp_xlsx[1], T)}
      [] raise_at = "unzip_xlsx" -> SUBSET DOMAIN d.xlsx[1]
      [] raise_at = "zip_dir"    -> {T \in SUBSET DOMAIN d.xlsx[1] : WalkReached(d.xlsx[1], T)}
      [] raise_at = "rmtree_end" -> {T \in SUBSET DOMAIN d.xlsx[1] : RmtreeReached(d.xlsx[1], T)}
      [] OTHER                   -> {{}}

\* the sets of drawings after which modify_drawing_xml can raise: there is a
\* drawing it has not rewritten
Rewritten(d, raise_at) ==
    IF raise_at = "modify_drawing_xml"
    THEN SUBSET DrawingXmls(d.xlsx[1]) \ {DrawingXmls(d.xlsx[1])}
    ELSE {{}}

\* one call of edit_xlsx_file
PatchXlsxImages ==
    /\ pc = "edit_xlsx"
    /\ \/ xdir' = Patched(xdir) /\ pc' = "edited"
       \/ \E i \in 1..Len(RaisePoints) :
             \E T \in Handled(xdir, RaisePoints[i]), S \in Rewritten(xdir, RaisePoints[i]) :
                /\ xdir' = Interrupted(xdir, RaisePoints[i], T, S)
                /\ pc' = "edit_raised"
    /\ UNCHANGED <<selection, window, trace, temp_exists, settings_export_path,
                   entry_text, config_saved, sorted_sequences, idx, segments, seg_i,
                   shot_dict, marks, workbook, files, temp_images, thumb>>

-----------------------------------------------------------------------------
(* the end of create_shot_sheets *)

\* shutil.rmtree(self.temp_path) in its try, then self.window.close()
Cleanup ==
    /\ pc = "cleanup"
    /\ \E rm_ok \in BOOLEAN :
          /\ temp_exists' = IF rm_ok THEN FALSE ELSE temp_exists
          /\ trace' = trace \o <<E("rmtree_temp")>> \o
                      (IF rm_ok THEN <<>> ELSE <<E("log_rmtree_error")>>) \o
                      <<E("window_close")>>
    /\ window' = "closed"
    /\ pc' = "complete"
    /\ UNCHANGED <<selection, settings_export_path, entry_text, config_saved,
                   sorted_sequences, idx, segments, seg_i, shot_dict, marks,
                   workbook, files,
                   temp_images, thumb, xdir>>

\* the completion dialog; save_config then closes the window
Complete ==
    /\ pc = "complete"
    /\ trace' = trace \o <<E("msg_complete"), E("window_close")>>
    /\ window' = "closed"
    /\ pc' = "ended"
    /\ UNCHANGED <<selection, temp_exists, settings_export_path, entry_text,
                   config_saved, sorted_sequences, idx, segments, seg_i, shot_dict,
                   marks, workbook, files,
                   temp_images, thumb, xdir>>

-----------------------------------------------------------------------------

\* patch_xlsx_images is not running
NoXdir == [xlsx |-> <<>>, temp_xlsx |-> <<>>, zip |-> <<>>]

Init ==
    /\ selection \in Selections
    /\ pc = "start"
    /\ window = "none"
    /\ trace = <<>>
    /\ temp_exists \in BOOLEAN
    /\ settings_export_path = DefaultExportPath
    /\ entry_text = DefaultExportPath
    /\ config_saved = "unsaved"
    /\ sorted_sequences = <<>>
    /\ idx = 1
    /\ segments = <<>>
    /\ seg_i = 1
    /\ shot_dict = <<>>
    /\ marks = [i \in 1..Len(selection) |-> NoMark]
    /\ workbook = NoWorkbook
    /\ files = <<>>
    /\ temp_images = {}
    /\ thumb = NoThumb
    /\ xdir = NoXdir

Next ==
    \/ Construct
    \/ ExportPathBrowse
    \/ SaveConfig
    \/ CloseWindow
    \/ SortSequences
    \/ BeginSequence
    \/ ShotStep
    \/ GetShotsReturn
    \/ CreateSequenceWorksheet
    \/ CloseWorkbook
    \/ EditXlsxFile
    \/ Cleanup
    \/ Complete

Spec == Init /\ [][Next]_vars

\* the script started on a single selected item: the runs on which the
\* contents of a worksheet are examined call by call
InitSheet == Init /\ Len(selection) = 1

SpecSheet == InitSheet /\ [][Next]_vars

\* edit_xlsx_file on its own: a workbook that was just closed at the export
\* path, with or without leftovers of an interrupted call next to it
InitPatch ==
    /\ pc = "edit_xlsx"
    /\ xdir \in {[xlsx |-> Present(a), temp_xlsx |-> t, zip |-> z] :
                    a \in Archives, t \in {<<>>, Present(Stale)}, z \in {<<>>, Present(Stale)}}
    /\ selection = <<>>
    /\ window = "hidden"
    /\ trace = <<>>
    /\ temp_exists = TRUE
    /\ settings_export_path = DefaultExportPath
    /\ entry_text = DefaultExportPath
    /\ config_saved = DefaultExportPath
    /\ sorted_sequences = <<>>
    /\ idx = 1
    /\ segments = <<>>
    /\ seg_i = 1
    /\ shot_dict = <<>>
    /\ marks = <<>>
    /\ workbook = NoWorkbook
    /\ files = <<>>
    /\ temp_images = {}
    /\ thumb = NoThumb

NextPatch == PatchXlsxImages

SpecPatch == InitPatch /\ [][NextPatch]_vars

-----------------------------------------------------------------------------
(* Vocabulary of the properties *)

\* the names of the selected sequences, without the quotes of their repr
SelectedNames == {SubSeq(selection[k].name, 2, Len(selection[k].name) - 1) : k \in 1..Len(selection)}

\* the trace is that of an export run (save_config passed its path checks)
ExportRun == Len(trace) > 0 /\ trace[1] = E("save_config")

\* the loop over the sorted sequences has been left
LoopOver == ExportRun /\ Has(trace, E("rmtree_temp"))

\* the export run has ended with the completion dialog
RunCompleted == pc = "ended" /\ ExportRun /\ Has(trace, E("msg_complete"))

\* the names of the sequences whose processing has begun, in the order it began
Processed == SelectSeq(trace, LAMBDA e : e.ev = "workbook")

\* the events of the trace that belong to the processing of one sequence
SequenceEvent(e) == e.ev \in {"workbook", "mkdir_images", "get_shots_done", "worksheet",
                              "close", "patch", "raise", "err_export"} /\ e.seq # <<>>

-----------------------------------------------------------------------------
(* C1: create_shot_sheets processes the selected sequences in ascending     *)
(* order of their names, and once the loop is over every selected sequence  *)
(* has been processed exactly once.                                         *)

C1_SortedOnce ==
    ExportRun =>
        LET processed == Processed
        IN  /\ \A i, j \in 1..Len(processed) :
                  i < j => StrLess(processed[i].seq, processed[j].seq)
            /\ \A i \in 1..Len(processed) : processed[i].seq \in SelectedNames
            /\ LoopOver =>
                  /\ Len(processed) = Len(selection)
                  /\ \A n \in SelectedNames : Count(trace, Ev("workbook", n)) = 1

\* a run over the selection <<b, ab>> has processed both
C1_Witness ==
    /\ LoopOver
    /\ Len(selection) = 2
    /\ selection[1].name = Q(<<"b">>)
    /\ selection[2].name = Q(<<"a", "b">>)
    /\ Processed = <<Ev("workbook", <<"a", "b">>), Ev("workbook", <<"b">>)>>

-----------------------------------------------------------------------------
(* C2: the worksheet built for a sequence has as many row blocks as the     *)
(* sequence's track has segments of type 'Video Segment'.                   *)

VideoSegmentCount == Cardinality({i \in 1..Len(segments) : segments[i].type = "Video Segment"})

C2_BlockPerVideoSegment ==
    pc = "close" => Len(workbook.sheets[1].blocks) = VideoSegmentCount

-----------------------------------------------------------------------------
(* C3: a sequence processed without error has exactly one workbook written, *)
(* at <export path>/<sequence name>.xlsx, with exactly one worksheet, named *)
(* after the sequence; two selected sequences never share a workbook path.  *)

C3_OneWorkbookPerSequence ==
    ExportRun =>
        /\ \A k \in 1..Len(selection) :
              LET n == SubSeq(selection[k].name, 2, Len(selection[k].name) - 1)
                  path == [dir |-> entry_text, file |-> n \o <<".xlsx">>]
              IN  Has(trace, Ev("patch", n)) =>
                     /\ Count(trace, Ev("close", n)) = 1
                     /\ path \in DOMAIN files
                     /\ Len(files[path].sheets) = 1
                     /\ files[path].sheets = <<n>>
        /\ \A k, l \in 1..Len(selection) :
              k # l => XlsxPath(entry_text, Strip(selection[k].name))
                       # XlsxPath(entry_text, Strip(selection[l].name))
        /\ \A p \in DOMAIN files :
              \E k \in 1..Len(selection) :
                  /\ p = XlsxPath(entry_text, Strip(selection[k].name))
                  /\ Count(trace, Ev("close", Strip(selection[k].name))) = 1

\* two sequences were exported without error
C3_Witness ==
    /\ RunCompleted
    /\ Has(trace, Ev("patch", <<"a">>))
    /\ Has(trace, Ev("patch", <<"b">>))
    /\ Cardinality(DOMAIN files) = 2

-----------------------------------------------------------------------------
(* C4: the stages run in the order validation, per sequence get_shots and   *)
(* then worksheet, close and patch, then the cleanup of the temp directory  *)
(* after the last sequence, then the completion dialog.                     *)

\* the positions of the trace where e occurs
Positions(e) == {i \in 1..Len(trace) : trace[i] = e}

\* e comes before f wherever f occurs: when f occurs, so does e, and every e
\* is before every f
Before(e, f) ==
    LET pe == Positions(e)
        pf == Positions(f)
    IN  pf # {} => (pe # {} /\ \A i \in pe, j \in pf : i < j)

C4_StageOrder ==
    /\ (pc \in {"sort", "begin", "shots", "worksheet", "close", "patch", "cleanup", "complete"}
           \/ ExportRun) =>
          /\ \A k \in 1..Len(selection) : selection[k].versions = 1 /\ selection[k].tracks = 1
          /\ \A k, l \in 1..Len(selection) : k # l => selection[k].name # selection[l].name
    /\ ExportRun =>
          /\ \A n \in SelectedNames :
                /\ Before(Ev("workbook", n), Ev("get_shots_done", n))
                /\ Before(Ev("get_shots_done", n), Ev("worksheet", n))
                /\ Before(Ev("worksheet", n), Ev("close", n))
                /\ Before(Ev("close", n), Ev("patch", n))
          /\ LET cleanup == Positions(E("rmtree_temp"))
             IN  cleanup # {} =>
                    /\ \A n \in SelectedNames : Has(trace, Ev("workbook", n))
                    /\ \A i \in 1..Len(trace) :
                          SequenceEvent(trace[i]) => \A j \in cleanup : i < j
          /\ Before(E("rmtree_temp"), E("msg_complete"))
          /\ pc = "ended" /\ ~Has(trace, E("err_sort")) => Has(trace, E("msg_complete"))

\* a completed run over two sequences, the first exported, the second failed
C4_Witness ==
    /\ RunCompleted
    /\ Has(trace, Ev("patch", <<"a">>))
    /\ Has(trace, Ev("raise", <<"b">>))
    /\ ~temp_exists

-----------------------------------------------------------------------------
(* C5: a selection with a sequence of more than one version, or whose first *)
(* version has more than one track, makes the constructor show 'Sequences   *)
(* can only have one version/track' and stop: no temp directory created or  *)
(* deleted, no main window, no install prompt, no export, no workbook.      *)

\* some selected sequence has more than one version or track
BadVersions == \E k \in 1..Len(selection) : selection[k].versions > 1 \/ selection[k].tracks > 1

\* the constructor touched nothing and opened nothing, and the script is over
NothingStarted ==
    /\ pc = "ended"
    /\ window = "none"
    /\ files = <<>>
    /\ \A i \in 1..Len(trace) :
          trace[i].ev \in {"module_load_error", "verify_ok", "verify_failed",
                            "err_versions", "err_duplicate"}

\* the claim as it stands
C5_Original ==
    (pc # "start" /\ BadVersions) => (Has(trace, E("err_versions")) /\ NothingStarted)

\* as amended: the error is shown when the script-install check passed;
\* nothing is started in either case
C5_VersionTrackRejected ==
    (pc # "start" /\ BadVersions) =>
        /\ NothingStarted
        /\ Has(trace, E("verify_ok")) => trace = <<E("verify_ok"), E("err_versions")>>
        /\ ~Has(trace, E("verify_ok")) =>
              trace \in {<<E("verify_failed")>>, <<E("module_load_error")>>}

\* the first sequence is fine, the second has two tracks: the error was shown
C5_Witness ==
    /\ pc = "ended"
    /\ Len(selection) = 2
    /\ selection[1].versions = 1 /\ selection[1].tracks = 1
    /\ selection[2].versions = 1 /\ selection[2].tracks = 2
    /\ trace = <<E("verify_ok"), E("err_versions")>>

-----------------------------------------------------------------------------
(* C6: a selection with two sequences of the same name makes the            *)
(* constructor show 'No two sequences can have the same name' and stop      *)
(* before the temp directory and the main window; so the names of a         *)
(* selection that reaches create_shot_sheets are pairwise distinct.         *)

\* two selected sequences have the same name
SameNames == \E k, l \in 1..Len(selection) : k # l /\ selection[k].name = selection[l].name

\* the claim as it stands
C6_Original ==
    (pc # "start" /\ SameNames) => (Has(trace, E("err_duplicate")) /\ NothingStarted)

\* as amended: the error is shown when the script-install check and the
\* version/track check passed; nothing is started in any case
C6_DuplicateRejected ==
    /\ (pc # "start" /\ SameNames) =>
          /\ NothingStarted
          /\ (Has(trace, E("verify_ok")) /\ ~BadVersions) =>
                trace = <<E("verify_ok"), E("err_duplicate")>>
    /\ (pc \in {"sort", "begin", "shots", "worksheet", "close", "patch", "cleanup", "complete"}
           \/ ExportRun) => ~SameNames

\* two sequences named a, one version and one track each: the error was shown
C6_Witness ==
    /\ pc = "ended"
    /\ Len(selection) = 2
    /\ selection[1] = [name |-> Q(<<"a">>), versions |-> 1, tracks |-> 1]
    /\ selection[2] = selection[1]
    /\ trace = <<E("verify_ok"), E("err_duplicate")>>

-----------------------------------------------------------------------------
(* C7: when a run of create_shot_sheets has ended, no selected sequence     *)
(* carries an in mark or out mark set by the script.                        *)

C7_MarksCleared ==
    (pc = "ended" /\ ExportRun) => \A k \in 1..Len(selection) : marks[k] = <<>>

-----------------------------------------------------------------------------
(* C8: a failure while one sequence is processed is shown in exactly one    *)
(* error dialog naming that sequence, and the run goes on: every selected   *)
(* sequence is still processed and the run ends with its completion dialog. *)

\* the positions of the trace where the processing of sequence n raised
Raises(n) == {i \in 1..Len(trace) : trace[i] = Ev("raise", n)}

C8_FailureIsLocal ==
    ExportRun =>
        /\ \A n \in SelectedNames :
              LET raises == Raises(n)
              IN  /\ Cardinality(raises) <= 1
                  /\ Count(trace, Ev("err_export", n)) = Cardinality(raises)
                  /\ \A i \in raises : i < Len(trace) /\ trace[i + 1] = Ev("err_export", n)
        /\ \A i \in 1..Len(trace) : trace[i].ev = "err_export" => trace[i].seq \in SelectedNames
        /\ (\E n \in SelectedNames : Raises(n) # {}) =>
              /\ pc \in {"begin", "shots", "worksheet", "close", "patch", "cleanup",
                         "complete", "ended"}
              /\ pc \in {"cleanup", "complete", "ended"} =>
                    \A n \in SelectedNames : Has(trace, Ev("workbook", n))
              /\ pc = "ended" => Has(trace, E("msg_complete"))

\* sequence a failed, sequence b after it was exported
C8_Witness ==
    /\ RunCompleted
    /\ Count(trace, Ev("err_export", <<"a">>)) = 1
    /\ Has(trace, Ev("patch", <<"b">>))
    /\ Last(trace, Ev("raise", <<"a">>)) < First(trace, Ev("workbook", <<"b">>))

-----------------------------------------------------------------------------
(* C9: in a run in which the constructor created the temp directory, the    *)
(* temp directory no longer exists once the run has ended.                  *)

\* the constructor got as far as creating the temp directory
TempCreated == window # "none" \/ Has(trace, E("mkdir_temp"))

C9_TempRemoved ==
    (pc = "ended" /\ TempCreated) => ~temp_exists

-----------------------------------------------------------------------------
(* C10: the dependency install is a one-shot flow gated by the password     *)
(* prompt: the main window is opened only when xlsxwriter is importable or   *)
(* when an install was attempted with a non-empty password and left a        *)
(* non-empty install directory; with an empty password no install is         *)
(* attempted and the main window is never opened; and the install is         *)
(* attempted at most once per run, never retried.                            *)

Untars(tr) == Count(tr, E("untar"))

\* the three statements of C10 about what one call of the constructor does
GatedOneShot(tr) ==
    /\ Has(tr, E("main_window")) =>
          \/ Has(tr, E("import_ok"))
          \/ /\ Has(tr, Ev("password", <<"given">>))
             /\ Has(tr, Ev("install_dir", <<"nonempty">>))
             /\ First(tr, E("untar")) < First(tr, E("main_window"))
    /\ Has(tr, Ev("password", <<"empty">>)) =>
          (Untars(tr) = 0 /\ ~Has(tr, E("main_window")))
    /\ Untars(tr) <= 1

\* In every step of a run: the window opens only as C10 says, an empty
\* password ends the run with no install and no window, at most one install
\* is attempted and only by the constructor, and the constructor does not run
\* again (no retry).  Before the constructor runs, the same three statements
\* hold of lines 53-215 for every result of the script-install check, of
\* xlsxwriter_check, of the password prompt and of the untar.
C10_InstallOneShot ==
    [][ LET untars == Untars(trace')
        IN  /\ (window = "none" /\ window' # "none") =>
                  \/ Has(trace', E("import_ok"))
                  \/ /\ Has(trace', Ev("password", <<"given">>))
                     /\ Has(trace', Ev("install_dir", <<"nonempty">>))
                     /\ First(trace', E("untar")) < First(trace', E("main_window"))
            /\ Has(trace', Ev("password", <<"empty">>)) =>
                  (untars = 0 /\ window' = "none" /\ pc' = "ended")
            /\ untars <= 1
            /\ untars = 1 => (Has(trace', E("import_fail")) /\ (pc = "start" \/ trace' = trace))
            /\ pc' = "start" => pc = "start"
            /\ window' = "none" => window = "none"
            /\ pc = "start" =>
                  \A install_ok \in BOOLEAN, importable \in BOOLEAN,
                     password \in {"", "pw"}, install_dir \in InstallDirs :
                     GatedOneShot(ConstructorTrace(selection, temp_exists, install_ok,
                                                   importable, password, install_dir))
      ]_vars

\* the constructor found xlsxwriter importable and opened the main window,
\* with no password prompt and no install
C10_Witness ==
    /\ pc = "window"
    /\ window = "open"
    /\ Has(trace, E("import_ok"))
    /\ First(trace, E("import_ok")) < First(trace, E("main_window"))
    /\ Untars(trace) = 0
    /\ \A i \in 1..Len(trace) : trace[i].ev # "password"

-----------------------------------------------------------------------------
(* The worksheet as xlsxwriter holds it once create_sequence_worksheet is over *)

\* create_sequence_worksheet has returned and the workbook is not yet closed
SheetDone == pc = "close"

TheSheet == workbook.sheets[1]

\* the call writes data into cell (row, col): write, or merge_range, which
\* writes its data into the first cell of the range and blanks into the rest
WritesCell(o, row, col) ==
    /\ o.op \in {"write", "merge_range"}
    /\ o.r1 <= row /\ row <= o.r2
    /\ o.c1 <= col /\ col <= o.c2

\* the position in ops of the last call that writes cell (row, col), 0 if none
LastWrite(ops, row, col) ==
    IF \E i \in 1..Len(ops) : WritesCell(ops[i], row, col)
    THEN CHOOSE i \in 1..Len(ops) :
            /\ WritesCell(ops[i], row, col)
            /\ \A j \in (i + 1)..Len(ops) : ~WritesCell(ops[j], row, col)
    ELSE 0

HasCell(ops, row, col) == LastWrite(ops, row, col) # 0

\* the final text of cell (row, col), which a call has written
CellValue(ops, row, col) ==
    LET o == ops[LastWrite(ops, row, col)]
    IN  IF o.op = "write" \/ (o.r1 = row /\ o.c1 = col) THEN o.val ELSE <<>>

\* the images anchored at cell (row, col): xlsxwriter inserts none for a file
\* that does not exist
ImagesAt(ops, row, col) ==
    {i \in 1..Len(ops) : /\ ops[i].op = "insert_image"
                          /\ ops[i].r1 = row /\ ops[i].c1 = col
                          /\ ops[i].found}

\* the text of a timecode as the host prints it, without the quotes
TcText(n) == <<"00:00:00+0", Digits[n + 1]>>

\* the metadata values that the segment at position i of the track should show
ValuesOfSegment(i) ==
    << segments[i].source_name,
       TcText(SourceIn(i)) \o <<"\n">> \o TcText(SourceOut(i)),
       TcText(RecordIn(i)) \o <<"\n">> \o TcText(RecordOut(i)),
       <<Digits[RecordOut(i) - RecordIn(i) + 1]>> >>

\* the final contents of the block whose first row is r and whose shot is the
\* segment at position i
BlockContents(ops, r, i) ==
    /\ ImagesAt(ops, r, 0) # {}
    /\ \A k \in 1..5 : /\ HasCell(ops, r, k + 2)
                       /\ CellValue(ops, r, k + 2) = Text(metadata_labels[k])
    /\ \A k \in 1..4 : /\ HasCell(ops, r + 1, k + 2)
                       /\ CellValue(ops, r + 1, k + 2) = ValuesOfSegment(i)[k]
                       /\ CellValue(ops, r + 1, k + 2) # <<>>
    /\ CellValue(ops, r + 2, 1) = <<"Task:">>
    /\ CellValue(ops, r + 3, 1) = <<"Status:">>
    /\ CellValue(ops, r + 4, 1) = <<"Artist:">>
    /\ \A k \in 1..6 : /\ CellValue(ops, r + 2, k + 1) = <<departments[k]>>
                       /\ HasCell(ops, r + 3, k + 1)
                       /\ HasCell(ops, r + 4, k + 1)

\* C11: when create_sequence_worksheet has finished, every shot block,
\* starting at its row r, holds a thumbnail anchored at (r, A), the five
\* metadata labels in D..H of row r, the source name, source timecodes,
\* record timecodes and frame count of the shot's segment in D..G of row
\* r + 1, none blank, 'Task:', 'Status:', 'Artist:' in column B of rows
\* r + 2..r + 4, the six departments in C..H of row r + 2, and a status cell
\* and an artist cell in each of C..H of rows r + 3 and r + 4.
C11_BlockContents ==
    SheetDone =>
        \A k \in 1..Len(TheSheet.blocks) :
            \E i \in 1..Len(segments) :
                /\ segments[i].type = VideoSegment
                /\ ShotName(segments[i]) = TheSheet.blocks[k].shot
                /\ BlockContents(WorksheetOps(TheSheet), TheSheet.blocks[k].row, i)

-----------------------------------------------------------------------------
(* edit_xlsx_file *)

\* every anchor among the children has editAs = 'twoCell'
AnchorsTwoCell(children) ==
    \A i \in 1..Len(children) :
        children[i].tag \in {"oneCellAnchor", "twoCellAnchor"} => children[i].editAs = "twoCell"

\* the member is xl/drawings/drawing*.xml
DrawingMember(m) ==
    m.dir = <<"xl", "drawings">> /\ Head(m.file) = "drawing" /\ m.file[Len(m.file)] = ".xml"

\* the children that are not anchors are what they were, in the same places
SameButAnchors(old, new) ==
    /\ Len(old) = Len(new)
    /\ \A i \in 1..Len(old) :
          /\ new[i].tag = old[i].tag
          /\ old[i].tag \notin {"oneCellAnchor", "twoCellAnchor"} => new[i] = old[i]

\* C12: after edit_xlsx_file succeeds the workbook exists at the same path,
\* every oneCellAnchor and twoCellAnchor of every xl/drawings/drawing*.xml has
\* editAs = 'twoCell', every other member of the archive is unchanged, and
\* neither temp_xlsx nor '<path>.zip' remains in the export directory.
C12_PatchedInPlace ==
    [][ (pc = "edit_xlsx" /\ pc' = "edited") =>
          /\ Len(xdir'.xlsx) = 1
          /\ DOMAIN xdir'.xlsx[1] = DOMAIN xdir.xlsx[1]
          /\ \A m \in DOMAIN xdir.xlsx[1] :
                IF DrawingMember(m)
                THEN /\ AnchorsTwoCell(xdir'.xlsx[1][m])
                     /\ SameButAnchors(xdir.xlsx[1][m], xdir'.xlsx[1][m])
                ELSE xdir'.xlsx[1][m] = xdir.xlsx[1][m]
          /\ xdir'.temp_xlsx = <<>>
          /\ xdir'.zip = <<>>
      ]_vars

\* a patched workbook whose first drawing holds an anchor of either kind and
\* whose look-alike members kept their attributes
C12_Witness ==
    /\ pc = "edited"
    /\ [dir |-> <<"xl", "drawings">>, file |-> <<"drawing", "1", ".xml">>] \in DOMAIN xdir.xlsx[1]
    /\ xdir.xlsx[1][[dir |-> <<"xl", "drawings">>, file |-> <<"drawing", "1", ".xml">>]] =
          <<[tag |-> "oneCellAnchor", editAs |-> "twoCell"],
            [tag |-> "twoCellAnchor", editAs |-> "twoCell"]>>
    /\ xdir.xlsx[1][[dir |-> <<"xl", "media">>, file |-> <<"drawing", "9", ".xml">>]] =
          <<[tag |-> "oneCellAnchor", editAs |-> ""]>>
    /\ xdir.temp_xlsx = <<>>

-----------------------------------------------------------------------------
(* The completion dialog *)

\* the 'Export Complete' dialog has been shown in this run
CompletionShown == Has(trace, [ev |-> "msg_complete", seq |-> <<>>])

\* C13: whenever the 'Export Complete' dialog ('Shot Sheet(s) Exported') is
\* shown, a workbook file exists at the export path for every selected
\* sequence of that run.
C13_CompleteMeansExported ==
    CompletionShown =>
        \A n \in SelectedNames :
            [dir |-> entry_text, file |-> n \o <<".xlsx">>] \in DOMAIN files

-----------------------------------------------------------------------------
(* The layout of the rows *)

\* the positions in the track of its Video Segments, in timeline order
VideoPositions ==
    SelectSeq([i \in 1..Len(segments) |-> i], LAMBDA i : segments[i].type = "Video Segment")

\* the calls that touch rows: cells, merged ranges, row heights, images
TouchesRows(o) == o.op \in {"write", "merge_range", "set_row", "insert_image"}

\* every row-touching call made while block b is processed stays in the five
\* rows of b and its divider row
StaysInBlock(b) ==
    \A j \in 1..Len(BlockOps(b)) :
        TouchesRows(BlockOps(b)[j]) =>
            /\ b.row <= BlockOps(b)[j].r1
            /\ BlockOps(b)[j].r2 <= b.row + 5

\* the divider of block b is the row after its five rows
DividerBelow(ops, b) ==
    \A col \in 0..7 : HasCell(ops, b.row + 5, col) /\ CellValue(ops, b.row + 5, col) = <<>>

\* C14: the k-th Video Segment of the track (k from 0) occupies rows 1 + 6k
\* to 5 + 6k with its divider in row 6 + 6k, row 0 being the header, and the
\* calls made for one shot touch no row of another shot's block or of the
\* header.
C14_RowLayout ==
    SheetDone =>
        \A k \in 1..Len(VideoPositions) :
            /\ k <= Len(TheSheet.blocks)
            /\ TheSheet.blocks[k].row = 1 + 6 * (k - 1)
            /\ CellValue(WorksheetOps(TheSheet), 2 + 6 * (k - 1), 5) =
                   ValuesOfSegment(VideoPositions[k])[3]
            /\ DividerBelow(WorksheetOps(TheSheet), TheSheet.blocks[k])
            /\ StaysInBlock(TheSheet.blocks[k])

\* the shot names of the track's Video Segments are pairwise different
DistinctShotNames ==
    \A i, j \in 1..Len(VideoPositions) :
        ShotName(segments[VideoPositions[i]]) = ShotName(segments[VideoPositions[j]]) => i = j

\* the same layout, asked only of the tracks whose shot names are pairwise different
RowLayoutOfDistinctShots == DistinctShotNames => C14_RowLayout

-----------------------------------------------------------------------------
(* Merged ranges *)

\* the positions in ops of the merge_range calls
MergeCalls(ops) == {i \in 1..Len(ops) : ops[i].op = "merge_range"}

\* two ranges have a cell in common
Intersect(a, b) ==
    /\ a.r1 <= b.r2 /\ b.r1 <= a.r2
    /\ a.c1 <= b.c2 /\ b.c1 <= a.c2

\* C15: within one worksheet the merged ranges are pairwise non-overlapping:
\* merge_range is never called with a range that intersects a range merged
\* by an earlier call.
C15_MergesDisjoint ==
    SheetDone =>
        \A i, j \in MergeCalls(WorksheetOps(TheSheet)) :
            i < j => ~Intersect(WorksheetOps(TheSheet)[i], WorksheetOps(TheSheet)[j])

-----------------------------------------------------------------------------
(* The thumbnails *)

\* the names of the first and of the second exported frame of a shot, and
\* the name without a frame number
FirstFrame(shot_name) == shot_name \o <<".", "1", ".", "jpg">>

SecondFrame(shot_name) == shot_name \o <<".", "2", ".", "jpg">>

Unnumbered(shot_name) == shot_name \o <<".", "jpg">>

\* C16: when an export adds two new files to the thumbnail directory,
\* export_thumbnail deletes the second frame and keeps the first, renamed to
\* remove the frame number, so that exactly one new file remains for the shot
\* and it is named <shot_name>.jpg; when the export adds one file, nothing is
\* deleted or renamed.
C16_KeepsFirstFrame ==
    /\ Len(thumb.new_images) = 2 =>
          /\ thumb.removed = {SecondFrame(thumb.shot)}
          /\ thumb.renamed = <<[from |-> FirstFrame(thumb.shot), to |-> Unnumbered(thumb.shot)]>>
          /\ Unnumbered(thumb.shot) \in temp_images
          /\ FirstFrame(thumb.shot) \notin temp_images
          /\ SecondFrame(thumb.shot) \notin temp_images
    /\ Len(thumb.new_images) = 1 =>
          /\ thumb.removed = {}
          /\ thumb.renamed = <<>>

-----------------------------------------------------------------------------
(* The path checks of save_config *)

\* the step is a press of Create that ends in one of the two error dialogs
CreateRejected ==
    /\ pc = "window"
    /\ trace' \in {<<[ev |-> "err_path_missing", seq |-> <<>>]>>,
                   <<[ev |-> "err_path_readonly", seq |-> <<>>]>>}

\* the step saves the config file or starts the export
SavesOrStarts == config_saved' # config_saved \/ (pc = "window" /\ pc' = "sort")

\* C17: when Create is pressed with an export path that is not an existing
\* directory or is not writable, an error dialog is shown and nothing else
\* changes: no config file is saved, the stored export_path setting keeps its
\* value, the window is neither hidden nor closed, create_shot_sheets is not
\* run; the config is saved and the export started only when both checks pass.
C17_RejectedPathChangesNothing ==
    [][ /\ (pc = "window" /\ trace' # <<>> /\ trace'[1].ev # "window_close" /\
            (~IsDir(entry_text) \/ ~Writable(entry_text))) => CreateRejected
        /\ CreateRejected =>
              /\ config_saved' = config_saved
              /\ settings_export_path' = settings_export_path
              /\ window' = window
              /\ pc' = pc
        /\ SavesOrStarts => (IsDir(entry_text) /\ Writable(entry_text))
      ]_vars

-----------------------------------------------------------------------------
(* The status cells *)

\* the positions in ops of the data validations that cover cell (row, col)
ValidationsOf(ops, row, col) ==
    {i \in 1..Len(ops) : /\ ops[i].op = "data_validation"
                         /\ ops[i].r1 <= row /\ row <= ops[i].r2
                         /\ ops[i].c1 <= col /\ col <= ops[i].c2}

\* the positions in ops of the conditional formats for a status over C..H of a row
FormatsOf(ops, row, status) ==
    {i \in 1..Len(ops) : /\ ops[i].op = "conditional_format"
                         /\ ops[i].r1 = row /\ ops[i].r2 = row
                         /\ ops[i].c1 = 2 /\ ops[i].c2 = 7
                         /\ ops[i].val = <<status>>}

SixStatuses == <<"Not Started", "In Progress", "Review", "Internally Approved",
                 "Client Approved", "On Hold">>

\* C18: for every shot block and every column C..H, the status cell (row
\* r + 3) carries a list data validation whose options are exactly the six
\* statuses, its initial value 'Not Started' is one of them, and each of the
\* five other statuses has exactly one conditional format over the block's
\* status row.
C18_StatusCells ==
    SheetDone =>
        \A k \in 1..Len(TheSheet.blocks) :
            LET r   == TheSheet.blocks[k].row
                ops == WorksheetOps(TheSheet)
            IN  /\ \A col \in 2..7 :
                      /\ ValidationsOf(ops, r + 3, col) # {}
                      /\ \A i \in ValidationsOf(ops, r + 3, col) : ops[i].val = SixStatuses
                      /\ CellValue(ops, r + 3, col) = <<"Not Started">>
                      /\ \E n \in 1..Len(SixStatuses) :
                            CellValue(ops, r + 3, col) = <<SixStatuses[n]>>
                /\ \A n \in 2..Len(SixStatuses) :
                      Cardinality(FormatsOf(ops, r + 3, SixStatuses[n])) = 1

\* a worksheet of two blocks: the status cell of column H of the second
\* block has its validation and its row its 'On Hold' format
C18_Witness ==
    /\ SheetDone
    /\ Len(TheSheet.blocks) = 2
    /\ ValidationsOf(WorksheetOps(TheSheet), 10, 7) # {}
    /\ FormatsOf(WorksheetOps(TheSheet), 10, "On Hold") # {}

====
